---- MODULE Spec2Model ----
(***************************************************************************)
(* Model of render_position, the locked single-position histogram renderer *)
(* (render_single_position_histogram_adaptive_COLORLOCKED_v2.py).          *)
(*                                                                         *)
(* Text is a sequence of one-character strings, so that strip(), lower(),  *)
(* split(",") and int() are computed and not assumed.  Spreadsheet cells   *)
(* are tagged records [t, v, s]: t = "int" (value v), "str" (text s) or    *)
(* "nan" (blank cell).  Proportions are counted in tenths; a normalised    *)
(* entry is the exact fraction <<numerator, denominator>>.  Lengths are in *)
(* 1/10000 inch.                                                           *)
(***************************************************************************)
EXTENDS Integers, Sequences, FiniteSets, TLC

\* ---------------------------------------------------------------- bounds
MaxHistRows == 2
MaxMabs == 2
MaxSheetRows == 2
MaxMutRows == 2

\* ------------------------------------------------------- text primitives
Upper == <<"A","B","C","D","E","F","G","H","I","J","K","L","M",
           "N","O","P","Q","R","S","T","U","V","W","X","Y","Z">>
Lowers == <<"a","b","c","d","e","f","g","h","i","j","k","l","m",
            "n","o","p","q","r","s","t","u","v","w","x","y","z">>
Digits == <<"0","1","2","3","4","5","6","7","8","9">>

Pos(seq, c) == IF \E i \in DOMAIN seq : seq[i] = c
               THEN CHOOSE i \in DOMAIN seq : seq[i] = c
               ELSE 0

\* ord(): code point of a character (ASCII)
Ord(c) == IF Pos(Upper, c) > 0 THEN 64 + Pos(Upper, c)
          ELSE IF Pos(Lowers, c) > 0 THEN 96 + Pos(Lowers, c)
          ELSE IF Pos(Digits, c) > 0 THEN 47 + Pos(Digits, c)
          ELSE IF c = " " THEN 32
          ELSE IF c = "," THEN 44
          ELSE IF c = "-" THEN 45
          ELSE IF c = "/" THEN 47
          ELSE 63

LowerCh(c) == IF Pos(Upper, c) > 0 THEN Lowers[Pos(Upper, c)] ELSE c

\* str.lower()
Lower(s) == [i \in DOMAIN s |-> LowerCh(s[i])]

RECURSIVE LStrip(_)
LStrip(s) == IF s # <<>> /\ Head(s) = " " THEN LStrip(Tail(s)) ELSE s

RECURSIVE RStrip(_)
RStrip(s) == IF s # <<>> /\ s[Len(s)] = " "
             THEN RStrip(SubSeq(s, 1, Len(s) - 1)) ELSE s

\* str.strip()
Strip(s) == RStrip(LStrip(s))

\* str.split(sep): the pieces between separators, empty pieces kept
RECURSIVE SplitFrom(_, _, _, _)
SplitFrom(s, sep, i, cur) ==
    IF i > Len(s) THEN <<cur>>
    ELSE IF s[i] = sep THEN <<cur>> \o SplitFrom(s, sep, i + 1, <<>>)
    ELSE SplitFrom(s, sep, i + 1, Append(cur, s[i]))

Split(s, sep) == SplitFrom(s, sep, 1, <<>>)

RECURSIVE DigitsVal(_, _)
DigitsVal(s, acc) == IF s = <<>> THEN acc
                     ELSE DigitsVal(Tail(s), 10 * acc + (Pos(Digits, Head(s)) - 1))

AllDigits(s) == s # <<>> /\ \A i \in DOMAIN s : Pos(Digits, s[i]) > 0

\* int(text): surrounding blanks ignored, optional sign, decimal digits;
\* anything else raises ValueError (ok = FALSE)
ParseInt(s) ==
    LET t == Strip(s) IN
    IF t # <<>> /\ Head(t) = "-" /\ AllDigits(Tail(t))
    THEN [ok |-> TRUE, v |-> 0 - DigitsVal(Tail(t), 0)]
    ELSE IF AllDigits(t) THEN [ok |-> TRUE, v |-> DigitsVal(t, 0)]
    ELSE [ok |-> FALSE, v |-> 0]

RECURSIVE NatStr(_)
NatStr(n) == IF n < 10 THEN <<Digits[n + 1]>>
             ELSE Append(NatStr(n \div 10), Digits[(n % 10) + 1])

Abs(n) == IF n < 0 THEN 0 - n ELSE n

\* str(int)
IntStr(n) == IF n < 0 THEN <<"-">> \o NatStr(0 - n) ELSE NatStr(n)

\* text order of Python's str comparison (by code point, then by length)
RECURSIVE StrLess(_, _)
StrLess(a, b) ==
    IF b = <<>> THEN FALSE
    ELSE IF a = <<>> THEN TRUE
    ELSE IF Ord(Head(a)) # Ord(Head(b)) THEN Ord(Head(a)) < Ord(Head(b))
    ELSE StrLess(Tail(a), Tail(b))

\* ------------------------------------------------------------ cell values
IntCell(n) == [t |-> "int", v |-> n, s |-> <<>>]
StrCell(x) == [t |-> "str", v |-> 0, s |-> x]
NanCell == [t |-> "nan", v |-> 0, s |-> <<>>]
NoneCell == [t |-> "none", v |-> 0, s |-> <<>>]

\* pd.isna(cell)
IsNa(c) == c.t \in {"nan", "none"}

\* str(cell): a number prints its digits, a blank cell prints "nan", None "None"
StrOf(c) == IF c.t = "int" THEN IntStr(c.v)
            ELSE IF c.t = "nan" THEN <<"n","a","n">>
            ELSE IF c.t = "none" THEN <<"N","o","n","e">>
            ELSE c.s

\* int(cell)
IntOf(c) == IF c.t = "int" THEN [ok |-> TRUE, v |-> c.v]
            ELSE IF c.t = "str" THEN ParseInt(c.s)
            ELSE [ok |-> FALSE, v |-> 0]

\* ------------------------------------------------------- locked constants
YEAR_MIN == 1965
YEAR_MAX == 2020

CLUSTER_NAMES == << <<"H","K","6","8">>, <<"E","N","7","2">>, <<"V","I","7","5">>,
                    <<"T","X","7","7">>, <<"B","K","7","9">>, <<"S","I","8","7">>,
                    <<"B","E","8","9">>, <<"B","E","9","2">>, <<"W","U","9","5">>,
                    <<"S","Y","9","7">>, <<"F","U","0","2">>, <<"C","A","0","4">>,
                    <<"W","I","0","5">>, <<"P","E","0","9">>, <<"T","X","1","2">>,
                    <<"H","K","1","4">> >>

HIST_H_IN == 20000
CLUSTER_H_IN == 3000
YEAR_H_IN == 2500
GAP_IN == 1000
TOP_PAD_IN == 2000
BOTTOM_PAD_IN == 200
NEUT_ROW_H_IN == 8500 \div 4
NO_MABS_H_IN == NEUT_ROW_H_IN

Other == <<"O","t","h","e","r">>

\* years = np.arange(YEAR_MIN, YEAR_MAX+1)
years == YEAR_MIN..YEAR_MAX

\* ------------------------------------------------- amino-acid aggregator
\* a variant that compares positions by absolute value
SelectPosition_abs(df, position) == SelectSeq(df, LAMBDA r : Abs(r.Position) = Abs(position))

\* df[df["Position"] == position]
SelectPosition(df, position) == SelectSeq(df, LAMBDA r : r.Position = position)

\* a variant that keeps the rows of every set
SelectSet_all(sub) == sub

\* sub[sub["SetName"] == sub["SetName"].iloc[0]]
SelectSet(sub) == SelectSeq(sub, LAMBDA r : r.SetName = sub[1].SetName)

\* a variant that tests the sentinels on the untrimmed text
coerce_aa_rawtest(x) ==
    IF IsNa(x) THEN Other
    ELSE LET s == StrOf(x) IN
         IF s = <<"-">> \/ Lower(s) \in { <<"n","a","n">>, <<"n","a">>,
                                          <<"n","/","a">>, <<"n","o","n","e">>, <<>> }
         THEN Other
         ELSE Strip(s)

\* _coerce_aa
coerce_aa(x) ==
    IF IsNa(x) THEN Other
    ELSE LET s == Strip(StrOf(x)) IN
         IF s = <<"-">> \/ Lower(s) \in { <<"n","a","n">>, <<"n","a">>,
                                          <<"n","/","a">>, <<"n","o","n","e">>, <<>> }
         THEN Other
         ELSE s

\* [c for c in sub.columns if isinstance(c,(int,np.integer)) and YEAR_MIN <= c <= YEAR_MAX]
\* as the set of column indexes kept
yrs_use(columns) == {k \in DOMAIN columns :
                        columns[k].t = "int" /\ YEAR_MIN <= columns[k].v /\ columns[k].v <= YEAR_MAX}

\* the sort key (z == "Other", z) of the column order
ColKeyLess(a, b) == IF (a = Other) # (b = Other) THEN b = Other ELSE StrLess(a, b)

RECURSIVE SortedCols(_)
SortedCols(S) == IF S = {} THEN <<>>
                 ELSE LET m == CHOOSE x \in S : \A y \in S \ {x} : ColKeyLess(x, y)
                      IN <<m>> \o SortedCols(S \ {m})

\* sorted(set(aas), key=lambda z: (z == "Other", z))
ColumnsOf(sub) == SortedCols({coerce_aa(sub[i].aa) : i \in DOMAIN sub})

\* pd.to_numeric(cell, errors="coerce") then fillna(0)
ToNumeric(c) == IF IntOf(c).ok THEN IntOf(c).v ELSE 0

\* a variant that assigns where the loop adds
RECURSIVE AddRow_assign(_, _, _, _)
AddRow_assign(m, columns, rr, k) ==
    IF k > Len(columns) THEN m
    ELSE IF k \in yrs_use(columns)
    THEN AddRow_assign([m EXCEPT ![columns[k].v][coerce_aa(rr.aa)] = ToNumeric(rr.vals[k])],
                       columns, rr, k + 1)
    ELSE AddRow_assign(m, columns, rr, k + 1)

\* mat.loc[yrs_use, aa] += pd.to_numeric(rr[yrs_use], errors="coerce").fillna(0).values
\* (one pass of the loop over sub.iterrows(), column by column)
RECURSIVE AddRow(_, _, _, _)
AddRow(m, columns, rr, k) ==
    IF k > Len(columns) THEN m
    ELSE IF k \in yrs_use(columns)
    THEN AddRow([m EXCEPT ![columns[k].v][coerce_aa(rr.aa)] = @ + ToNumeric(rr.vals[k])],
                columns, rr, k + 1)
    ELSE AddRow(m, columns, rr, k + 1)

RECURSIVE Accumulate(_, _, _, _)
Accumulate(m, columns, sub, i) ==
    IF i > Len(sub) THEN m
    ELSE Accumulate(AddRow(m, columns, sub[i], 1), columns, sub, i + 1)

Range(seq) == {seq[i] : i \in DOMAIN seq}

\* pd.DataFrame(0.0, index=years, columns=cols)
ZeroMat(cols) == [y \in years |-> [c \in Range(cols) |-> 0]]

RECURSIVE SumOver(_, _)
SumOver(f, S) == IF S = {} THEN 0
                 ELSE LET x == CHOOSE x \in S : TRUE IN f[x] + SumOver(f, S \ {x})

\* a variant that leaves the sums undivided
safe_normalize_raw(m) == [y \in years |-> [c \in DOMAIN m[y] |-> <<m[y][c], 1>>]]

\* safe_normalize: rs = mat.sum(axis=1); rs[rs == 0] = 1.0; mat.div(rs, axis=0)
safe_normalize(m) ==
    [y \in years |->
        LET rs0 == SumOver(m[y], DOMAIN m[y])
            rs == IF rs0 = 0 THEN 1 ELSE rs0
        IN [c \in DOMAIN m[y] |-> <<m[y][c], rs>>]]

\* exact fractions <<n, d>>, d > 0
FracAdd(a, b) == <<a[1] * b[2] + b[1] * a[2], a[2] * b[2]>>
FracLess(a, b) == a[1] * b[2] < b[1] * a[2]

RECURSIVE FracSum(_, _, _)
FracSum(m, c, Y) == IF Y = {} THEN <<0, 1>>
                    ELSE LET y == CHOOSE y \in Y : TRUE
                         IN FracAdd(m[y][c], FracSum(m, c, Y \ {y}))

\* mat[c].sum(): the years whose entry is 0 add nothing
ColSum(m, c) == FracSum(m, c, {y \in years : m[y][c][1] # 0})

\* mat[c].mean()
ColMean(m, c) == <<ColSum(m, c)[1], ColSum(m, c)[2] * (YEAR_MAX - YEAR_MIN + 1)>>

\* sorted(main, key=..., reverse=True): stable, largest key first
RECURSIVE InsertDesc(_, _, _)
InsertDesc(sorted, x, key) ==
    IF sorted = <<>> THEN <<x>>
    ELSE IF FracLess(key[Head(sorted)], key[x]) THEN <<x>> \o sorted
    ELSE <<Head(sorted)>> \o InsertDesc(Tail(sorted), x, key)

RECURSIVE SortDesc(_, _, _)
SortDesc(seq, key, acc) == IF seq = <<>> THEN acc
                           ELSE SortDesc(Tail(seq), key, InsertDesc(acc, Head(seq), key))

IsOtherCol(c) == Lower(c) = Lower(Other)

\* a variant that sorts every column by its mean
AaOrder_bymean(cols, m) == SortDesc(cols, [c \in Range(cols) |-> ColMean(m, c)], <<>>)

\* other = [c ... if c.lower()=="other"]; main = [c ... if c.lower()!="other"]
\* aa_order = sorted(main, key=lambda c: mat[c].mean(), reverse=True) + other
AaOrder(cols, m) ==
    LET other == SelectSeq(cols, IsOtherCol)
        main == SelectSeq(cols, LAMBDA c : ~IsOtherCol(c))
        key == [c \in Range(main) |-> ColMean(m, c)]
    IN SortDesc(main, key, <<>>) \o other

\* ------------------------------------------------ position -> antibodies
\* [int(x) for x in s.split(",") if str(x).strip()]
MabTokens(s) == SelectSeq(Split(s, ","), LAMBDA x : Strip(x) # <<>>)

\* the list one mapping record gives; ok = FALSE where int() raises
RecordMabs(r) ==
    LET s == Strip(StrOf(r.mAbs)) IN
    IF s \in { <<>>, <<"n","a","n">>, <<"N","o","n","e">>, <<"n","o","n","e">> }
    THEN [ok |-> TRUE, list |-> <<>>]
    ELSE LET toks == MabTokens(s) IN
         [ok |-> \A i \in DOMAIN toks : ParseInt(toks[i]).ok,
          list |-> [i \in DOMAIN toks |-> ParseInt(toks[i]).v]]

\* a variant that keys the dict by absolute value
RecordKey_abs(r) == Abs(IntOf(r.Position).v)

\* p = int(r["Position"])
RecordKey(r) == IntOf(r.Position).v

\* load_position_mabs: the dict as the set of its keys and the list of each,
\* a later record replacing an earlier one with the same key
RECURSIVE load_position_mabs(_, _, _)
load_position_mabs(mapping_list, i, d) ==
    IF i > Len(mapping_list) THEN [ok |-> TRUE, dict |-> d]
    ELSE LET r == mapping_list[i] IN
         IF ~IntOf(r.Position).ok \/ ~RecordMabs(r).ok THEN [ok |-> FALSE, dict |-> d]
         ELSE load_position_mabs(mapping_list, i + 1,
                  [k \in DOMAIN d \cup {RecordKey(r)} |->
                      IF k = RecordKey(r) THEN RecordMabs(r).list ELSE d[k]])

EmptyDict == [k \in {} |-> <<>>]

\* pos_to_mabs.get(position, [])
DictGet(d, position) == IF position \in DOMAIN d THEN d[position] ELSE <<>>

\* -------------------------------------------------- neutralization sheet
\* find_row: the first sheet row (3 onward) whose column B holds the
\* antibody by absolute value; 0 stands for None
SameAntibody(v, m) == IntOf(v).ok /\ Abs(IntOf(v).v) = Abs(m)

FirstFrom(P(_), k, n) == IF \E j \in k..n : P(j)
                         THEN CHOOSE j \in k..n : P(j) /\ \A h \in k..(j - 1) : ~P(h)
                         ELSE 0

find_row(ws, m) ==
    LET hit == FirstFrom(LAMBDA k : ws[k].id.t # "none" /\ SameAntibody(ws[k].id, m), 1, Len(ws))
    IN IF hit = 0 THEN 0 ELSE hit + 2

White == [name |-> "white", rgb |-> <<255, 255, 255>>]

\* cell_hex: the last six hex digits of a solid RGB fill, else "white"
cell_hex(cell) == IF cell.patternType # "none" /\ cell.ctype = "rgb"
                  THEN [name |-> "hex", rgb |-> SubSeq(cell.rgb, 2, 4)]
                  ELSE White

\* text_color
text_color(bg) == IF bg = White THEN "black"
                  ELSE IF bg.rgb[1] + bg.rgb[2] + bg.rgb[3] < 3 * 128 THEN "white"
                  ELSE "black"

\* rows = {m: find_row(m) for m in mabs}
RowsOf(ws, ms) == [i \in DOMAIN ms |-> find_row(ws, ms[i])]

\* ws.cell(None, c) raises: a lookup that found no row stops the render
LookupFails(ws, ms) == \E i \in DOMAIN ms : find_row(ws, ms[i]) = 0

\* faces = [[cell_hex(ws.cell(rows[m], cluster_cols[c])) for c in CLUSTER_NAMES] for m in mabs]
FacesOf(ws, ms) ==
    [i \in DOMAIN ms |->
        LET r == find_row(ws, ms[i])
        IN [j \in DOMAIN CLUSTER_NAMES |-> cell_hex(ws[r - 2].fills[j])]]

\* ------------------------------------------------------- mutation table
\* next((mm for mm in mabs if abs(mm) == abs(m_parsed)), None), as an index (0 = None)
MatchMab(ms, m_parsed) == FirstFrom(LAMBDA i : Abs(ms[i]) = Abs(m_parsed), 1, Len(ms))

\* the row is for the queried position
RowAtPosition(rr, position) == IntOf(rr.pos).v = position

\* CLUSTER_NAMES.index(strain), 0-based; -1 when absent
ClusterIndex(strain) == Pos(CLUSTER_NAMES, strain) - 1

\* a variant that never takes the footnote branch
IsLastCluster_never(idx) == FALSE

\* if idx == len(CLUSTER_NAMES) - 1
IsLastCluster(idx) == idx = Len(CLUSTER_NAMES) - 1

\* one pass of the loop over aa_df.iterrows(); st = [mutations, asterisk_mabs]
ScanRow(st, ms, position, rr) ==
    IF ~RowAtPosition(rr, position) THEN st
    ELSE LET p == ParseInt(StrOf(rr.mab)) IN
    IF ~p.ok THEN st
    ELSE LET i == MatchMab(ms, p.v) IN
    IF i = 0 THEN st
    ELSE LET m == ms[i]
             strain == Strip(StrOf(rr.strain))
             mut == Strip(StrOf(rr.mut))
         IN
    IF mut = <<>> THEN st
    ELSE IF ClusterIndex(strain) < 0 THEN st
    ELSE IF IsLastCluster(ClusterIndex(strain))
         THEN [st EXCEPT !.asterisk_mabs = Append(@, m)]
    ELSE [st EXCEPT !.mutations =
            [k \in DOMAIN @ \cup {m} |->
                IF k = m THEN <<ClusterIndex(strain), mut[1], mut[Len(mut)]>> ELSE @[k]]]

EmptyMutations == [k \in {} |-> <<>>]

RECURSIVE ScanMutations(_, _, _, _, _)
ScanMutations(st, ms, position, aa_df, i) ==
    IF i > Len(aa_df) THEN st
    ELSE ScanMutations(ScanRow(st, ms, position, aa_df[i]), ms, position, aa_df, i + 1)

\* ---------------------------------------------------------------- layout
\* a variant that resolves whatever the list holds
HasMabs_always(ms) == TRUE

\* if len(mabs) > 0
HasMabs(ms) == Len(ms) > 0

\* a variant with the fixed block of four rows
NeutHeight_fixed(ms) == NEUT_ROW_H_IN * 4

\* neut_h = (NEUT_ROW_H_IN * len(mabs)) if len(mabs) > 0 else NO_MABS_H_IN
NeutHeight(ms) == IF Len(ms) > 0 THEN NEUT_ROW_H_IN * Len(ms) ELSE NO_MABS_H_IN

\* fig_h = HIST_H_IN + CLUSTER_H_IN + neut_h + YEAR_H_IN + 3*GAP_IN + TOP_PAD_IN + BOTTOM_PAD_IN
FigHeight(nh) == HIST_H_IN + CLUSTER_H_IN + nh + YEAR_H_IN + 3 * GAP_IN + TOP_PAD_IN + BOTTOM_PAD_IN

\* the four stacked panels as <<offset from the top, height>>
PlaceAxes(nh) ==
    LET y1 == TOP_PAD_IN
        y2 == y1 + HIST_H_IN + GAP_IN
        y3 == y2 + CLUSTER_H_IN + GAP_IN
        y4 == y3 + nh + GAP_IN
    IN [hist |-> <<y1, HIST_H_IN>>, cluster |-> <<y2, CLUSTER_H_IN>>,
        neut |-> <<y3, nh>>, year |-> <<y4, YEAR_H_IN>>]

\* --------------------------------------------------------------- drawing
Item(kind, row, col, txt, m, star, color) ==
    [kind |-> kind, row |-> row, col |-> col, txt |-> txt, m |-> m, star |-> star, color |-> color]

Placeholder == Item("text", 0, 0, "No associated mAbs", 0, FALSE, "black")
SideTitle == Item("text", 0, 0, "Neutralization", 0, FALSE, "black")

\* the neutralization panel; row i of the list is drawn at yrow = len(mabs) - i
\* (i from 1), cluster cells are numbered from 0 as in the loop over CLUSTERS
DrawNeut(ms, fc, muts, stars) ==
    IF Len(ms) = 0 THEN [patches |-> {}, texts |-> {Placeholder}]
    ELSE
    [patches |-> {[row |-> Len(ms) - i, col |-> j, bg |-> fc[i][j + 1]] :
                    i \in DOMAIN ms, j \in 0..(Len(CLUSTER_NAMES) - 1)},
     texts |->
        {Item("wt", Len(ms) - i, muts[ms[i]][1], muts[ms[i]][2], 0, FALSE,
              text_color(fc[i][muts[ms[i]][1] + 1])) :
            i \in {h \in DOMAIN ms : ms[h] \in DOMAIN muts}}
        \cup
        {Item("mut", Len(ms) - i, muts[ms[i]][1] + 1, muts[ms[i]][3], 0, FALSE,
              text_color(fc[i][muts[ms[i]][1] + 2])) :
            i \in {h \in DOMAIN ms : ms[h] \in DOMAIN muts}}
        \cup
        {Item("label", Len(ms) - i, 0, "mAb", ms[i], ms[i] \in Range(stars), "black") :
            i \in DOMAIN ms}
        \cup {SideTitle}]

\* [a for a in aa_order if mat[a].sum() > 0]
LegendOf(order, m) == SelectSeq(order, LAMBDA a : ColSum(m, a)[1] > 0)

\* ---------------------------------------------------------------- inputs
SeqUpTo(S, n) == UNION {[1..k -> S] : k \in 0..n}

T117 == <<"1","1","7">>
TNeg117 == <<"-","1","1","7">>
T5 == <<"5">>
TA == <<"A">>
TB == <<"B">>
TX12 == CLUSTER_NAMES[15]
HK14 == CLUSTER_NAMES[16]

RECURSIVE Join(_)
Join(toks) == IF Len(toks) = 1 THEN toks[1]
              ELSE toks[1] \o <<",">> \o Join(Tail(toks))

\* the histogram table: year columns 1964, 2000, 2001 and a column whose
\* header is the text "2002"
HistColumns == <<IntCell(1964), IntCell(2000), IntCell(2001), StrCell(<<"2","0","0","2">>)>>

ValRows == { <<IntCell(3), IntCell(6), IntCell(10), IntCell(5)>>,
             <<IntCell(0), IntCell(4), NanCell, IntCell(5)>>,
             <<NanCell, IntCell(0), StrCell(<<"x">>), NanCell>> }

\* labels of the tables of several rows
AaFields == { StrCell(TA), StrCell(<<" ","B"," ">>), NanCell,
              StrCell(<<"N","/","A">>), StrCell(Lower(Other)) }

\* further labels, each tried in a table of one row
MoreAaFields == { StrCell(<<"-">>), StrCell(Other), StrCell(<<"n","a">>), StrCell(<<"N","o","n","e">>),
                  StrCell(<<"n","a","n">>), StrCell(<<" ">>), StrCell(<<>>), NoneCell,
                  IntCell(5), StrCell(<<"O","T","H","E","R">>), StrCell(<<"-","-">>) }

HistRow(p, sn, aa, vals) == [Position |-> p, SetName |-> sn, aa |-> aa, vals |-> vals]

LabelRows == {HistRow(160, "S1", aa, v) :
                 aa \in AaFields,
                 v \in { <<IntCell(3), IntCell(6), IntCell(10), IntCell(5)>>,
                         <<IntCell(0), IntCell(4), NanCell, IntCell(5)>> }}

MoreLabelRows == {HistRow(160, "S1", aa, v) : aa \in MoreAaFields, v \in ValRows}

SetRows == {HistRow(p, sn, StrCell(aa), v) :
               p \in {160, -160}, sn \in {"S1", "S2"}, aa \in {TA, TB},
               v \in { <<IntCell(3), IntCell(6), IntCell(10), IntCell(5)>> }}

\* position 160, set S1: 2000: A = 0.6, B = 0.4; 2001: A = 1.0
DefaultHist == << HistRow(160, "S1", StrCell(TA), <<NanCell, IntCell(6), IntCell(10), NanCell>>),
                  HistRow(160, "S1", StrCell(TB), <<NanCell, IntCell(4), NanCell, NanCell>>) >>

MapRec(p, s) == [Position |-> p, mAbs |-> s]

MabsFields == { StrCell(<<>>), StrCell(<<"n","a","n">>), NoneCell, StrCell(<<" ","n","o","n","e">>),
                StrCell(<<"5",",",","," ">> \o TNeg117) }

MapRecs == {MapRec(IntCell(p), s) : p \in {160, -160}, s \in MabsFields}

MaxMapRecs == 2

DefaultMapping == << MapRec(IntCell(160), StrCell(T117)) >>

MabLists == {Join(t) : t \in UNION {[1..k -> {T117, TNeg117, T5}] : k \in 1..MaxMabs}}

NoFill == [patternType |-> "none", ctype |-> "rgb", rgb |-> <<0, 0, 0, 0>>]
Solid(r, g, b) == [patternType |-> "solid", ctype |-> "rgb", rgb |-> <<255, r, g, b>>]
ThemeFill == [patternType |-> "solid", ctype |-> "theme", rgb |-> <<0, 0, 0, 0>>]

BlankFills == [j \in DOMAIN CLUSTER_NAMES |-> NoFill]
MixedFills == [j \in DOMAIN CLUSTER_NAMES |->
                 IF j % 3 = 0 THEN ThemeFill
                 ELSE IF j % 2 = 0 THEN Solid(0, 0, 117) ELSE Solid(255, 230, 153)]

SheetRow(id, fills) == [id |-> id, fills |-> fills]

SheetRows == { SheetRow(NoneCell, BlankFills), SheetRow(StrCell(<<"m","A","b">>), BlankFills),
               SheetRow(IntCell(-117), MixedFills), SheetRow(StrCell(T5), BlankFills) }

DefaultSheet == << SheetRow(StrCell(<<"I","D">>), BlankFills),
                   SheetRow(IntCell(-117), MixedFills), SheetRow(IntCell(5), BlankFills) >>

MutRow(p, mab, strain, mut) == [pos |-> IntCell(p), mab |-> mab, strain |-> strain, mut |-> mut]

K160T == <<"K","1","6","0","T">>
N145S == <<"N","1","4","5","S">>

StrainRows == {MutRow(160, IntCell(117), StrCell(st), mu) :
                  st \in {CLUSTER_NAMES[1], TX12, <<" ">> \o HK14, <<"Z","Z","9","9">>},
                  mu \in {NanCell, StrCell(<<" ">>), StrCell(K160T)}}

FilterRows == {MutRow(p, mab, StrCell(TX12), StrCell(N145S)) :
                  p \in {160, -160},
                  mab \in {IntCell(-117), IntCell(5), StrCell(<<"x">>), StrCell(<<" ">> \o T117)}}

DefaultMut == << MutRow(160, IntCell(117), StrCell(TX12), StrCell(K160T)) >>

TwoMabs == <<MapRec(IntCell(160), StrCell(TNeg117 \o <<",">> \o T5))>>

\* ----------------------------------------------------------------- state
VARIABLES position, mapping_json, hist_xlsx, neut_xlsx, aa_positions_xlsx,
          pc, err, opened, mabs, mat0, mat, aa_order,
          faces, mutations, asterisk_mabs, neut_h, fig_h, axes,
          ax_hist, ax_leg, ax_neut, out_file

inputs == <<position, mapping_json, hist_xlsx, neut_xlsx, aa_positions_xlsx>>
hist_vars == <<mat0, mat, aa_order>>
neut_vars == <<faces, mutations, asterisk_mabs>>
layout_vars == <<neut_h, fig_h, axes>>
draw_vars == <<ax_hist, ax_leg, ax_neut>>
vars == <<inputs, pc, err, opened, mabs, hist_vars, neut_vars, layout_vars, draw_vars, out_file>>

Inputs ==
    \/ /\ hist_xlsx \in SeqUpTo(LabelRows, MaxHistRows) \cup SeqUpTo(SetRows, MaxHistRows)
                           \cup {<<r>> : r \in MoreLabelRows}
       /\ mapping_json = DefaultMapping
       /\ neut_xlsx = DefaultSheet
       /\ aa_positions_xlsx = DefaultMut
    \/ /\ hist_xlsx = DefaultHist
       /\ mapping_json \in SeqUpTo(MapRecs, MaxMapRecs)
       /\ neut_xlsx = DefaultSheet
       /\ aa_positions_xlsx = DefaultMut
    \/ /\ hist_xlsx = DefaultHist
       /\ mapping_json \in {<<MapRec(IntCell(160), StrCell(s))>> : s \in MabLists}
       /\ neut_xlsx \in SeqUpTo(SheetRows, MaxSheetRows)
       /\ aa_positions_xlsx = DefaultMut
    \/ /\ hist_xlsx = DefaultHist
       /\ mapping_json = TwoMabs
       /\ neut_xlsx = DefaultSheet
       /\ aa_positions_xlsx \in SeqUpTo(StrainRows, MaxMutRows)
    \/ /\ hist_xlsx = DefaultHist
       /\ mapping_json \in {DefaultMapping, TwoMabs}
       /\ neut_xlsx = DefaultSheet
       /\ aa_positions_xlsx \in SeqUpTo(FilterRows, MaxMutRows)

Init ==
    /\ position = 160
    /\ Inputs
    /\ pc = "load"
    /\ err = "none"
    /\ opened = {}
    /\ mabs = <<>>
    /\ mat0 = <<>>
    /\ mat = <<>>
    /\ aa_order = <<>>
    /\ faces = <<>>
    /\ mutations = EmptyMutations
    /\ asterisk_mabs = <<>>
    /\ neut_h = 0
    /\ fig_h = 0
    /\ axes = <<>>
    /\ ax_hist = <<>>
    /\ ax_leg = <<>>
    /\ ax_neut = [patches |-> {}, texts |-> {}]
    /\ out_file = "none"

\* lines 116-117: pos_to_mabs = load_position_mabs(mapping_json); mabs = pos_to_mabs.get(position, [])
LoadMapping ==
    /\ pc = "load"
    /\ opened' = opened \cup {"mapping_json"}
    /\ LET r == load_position_mabs(mapping_json, 1, EmptyDict) IN
       IF r.ok
       THEN /\ mabs' = DictGet(r.dict, position)
            /\ pc' = "hist"
            /\ err' = err
       ELSE /\ mabs' = mabs
            /\ pc' = "error"
            /\ err' = "ValueError"
    /\ UNCHANGED <<inputs, hist_vars, neut_vars, layout_vars, draw_vars, out_file>>

\* lines 119-152: histogram data
Histogram ==
    /\ pc = "hist"
    /\ opened' = opened \cup {"hist_xlsx"}
    /\ LET sub0 == SelectPosition(hist_xlsx, position) IN
       IF sub0 = <<>>
       THEN /\ pc' = "error"
            /\ err' = "No histogram data found"
            /\ UNCHANGED hist_vars
       ELSE LET sub == SelectSet(sub0)
                cols == ColumnsOf(sub)
            IN /\ mat0' = Accumulate(ZeroMat(cols), HistColumns, sub, 1)
               /\ mat' = safe_normalize(mat0')
               /\ aa_order' = AaOrder(cols, mat')
               /\ pc' = "neut"
               /\ err' = err
    /\ UNCHANGED <<inputs, mabs, neut_vars, layout_vars, draw_vars, out_file>>

\* lines 154-203: neutralization fills + mutation letters
Resolve ==
    /\ pc = "neut"
    /\ IF HasMabs(mabs)
       THEN IF LookupFails(neut_xlsx, mabs)
            THEN /\ opened' = opened \cup {"neut_xlsx"}
                 /\ pc' = "error"
                 /\ err' = "TypeError"
                 /\ UNCHANGED neut_vars
            ELSE LET st == ScanMutations([mutations |-> EmptyMutations, asterisk_mabs |-> <<>>],
                                         mabs, position, aa_positions_xlsx, 1)
                 IN /\ opened' = opened \cup {"neut_xlsx", "aa_positions_xlsx"}
                    /\ faces' = FacesOf(neut_xlsx, mabs)
                    /\ mutations' = st.mutations
                    /\ asterisk_mabs' = st.asterisk_mabs
                    /\ pc' = "layout"
                    /\ err' = err
       ELSE /\ faces' = <<>>
            /\ mutations' = EmptyMutations
            /\ asterisk_mabs' = <<>>
            /\ pc' = "layout"
            /\ UNCHANGED <<opened, err>>
    /\ UNCHANGED <<inputs, mabs, hist_vars, layout_vars, draw_vars, out_file>>

\* lines 205-229: adaptive height and panel placement
Layout ==
    /\ pc = "layout"
    /\ neut_h' = NeutHeight(mabs)
    /\ fig_h' = FigHeight(NeutHeight(mabs))
    /\ axes' = PlaceAxes(NeutHeight(mabs))
    /\ pc' = "draw"
    /\ UNCHANGED <<inputs, err, opened, mabs, hist_vars, neut_vars, draw_vars, out_file>>

\* lines 231-320: the panels
Draw ==
    /\ pc = "draw"
    /\ ax_hist' = aa_order
    /\ ax_leg' = LegendOf(aa_order, mat)
    /\ ax_neut' = DrawNeut(mabs, faces, mutations, asterisk_mabs)
    /\ pc' = "save"
    /\ UNCHANGED <<inputs, err, opened, mabs, hist_vars, neut_vars, layout_vars, out_file>>

\* lines 322-326: out_path.with_suffix("." + fmt.lower()); fig.savefig(out_path)
Save ==
    /\ pc = "save"
    /\ \E fmt \in {"svg", "png"} : out_file' = fmt
    /\ pc' = "done"
    /\ UNCHANGED <<inputs, err, opened, mabs, hist_vars, neut_vars, layout_vars, draw_vars>>

Next == LoadMapping \/ Histogram \/ Resolve \/ Layout \/ Draw \/ Save

Spec == Init /\ [][Next]_vars

\* ------------------------------------------------------------ properties
NoDataError == "No histogram data found"

\* the histogram section has run to its end
HistDone == pc \in {"neut", "layout", "draw", "save", "done"} \/ (pc = "error" /\ err = "TypeError")

\* the histogram section has just run: the state in which its matrix is handed
\* on (no later step assigns mat0, mat or aa_order)
Aggregated == pc = "neut"

\* the resolver section has run to its end
ResolveDone == pc \in {"layout", "draw", "save", "done"}

\* the table rows of the requested position, and those of the first one's set
AtPosition == {i \in DOMAIN hist_xlsx : hist_xlsx[i].Position = position}
FirstAtPosition == CHOOSE i \in AtPosition : \A j \in AtPosition : i <= j
Selected == {i \in AtPosition : hist_xlsx[i].SetName = hist_xlsx[FirstAtPosition].SetName}

\* the in-range integer year columns labelled y
ColumnsOfYear(y) == {k \in DOMAIN HistColumns :
                        /\ HistColumns[k].t = "int"
                        /\ HistColumns[k].v = y
                        /\ YEAR_MIN <= y /\ y <= YEAR_MAX}

RECURSIVE SumCells(_)
SumCells(S) == IF S = {} THEN 0
               ELSE LET x == CHOOSE x \in S : TRUE
                    IN ToNumeric(hist_xlsx[x[1]].vals[x[2]]) + SumCells(S \ {x})

\* the source values of year y that belong to label c, summed
SourceSum(y, c) ==
    IF ColumnsOfYear(y) = {} THEN 0
    ELSE SumCells({i \in Selected : coerce_aa(hist_xlsx[i].aa) = c} \X ColumnsOfYear(y))

\* the source values of year y, summed over all labels
SourceTotal(y) == IF ColumnsOfYear(y) = {} THEN 0 ELSE SumCells(Selected \X ColumnsOfYear(y))

RowNumerators(y) == SumOver([c \in DOMAIN mat[y] |-> mat[y][c][1]], DOMAIN mat[y])

\* C1: after aggregation and safe_normalize every year row 1965..2020 of the
\* proportion matrix sums to 1 or is all-zero; it is all-zero exactly when the
\* summed source values of that year are all zero (years without a column
\* included); no entry is divided by zero.
C1_RowsSumToOneOrZero ==
    Aggregated =>
        /\ DOMAIN mat = years
        /\ \A y \in years :
             LET allZero == \A c \in DOMAIN mat[y] : mat[y][c][1] = 0 IN
             /\ \A c \in DOMAIN mat[y] : mat[y][c][2] > 0
             /\ \A c \in DOMAIN mat[y] : mat[y][c][2] = mat[y][CHOOSE d \in DOMAIN mat[y] : TRUE][2]
             /\ allZero \/ RowNumerators(y) = mat[y][CHOOSE d \in DOMAIN mat[y] : TRUE][2]
             /\ allZero <=> (\A c \in DOMAIN mat[y] : SourceSum(y, c) = 0)

\* a render whose table gives year 2000 two positive labels and year 2001 none
C1_Witness ==
    /\ HistDone
    /\ Cardinality({c \in DOMAIN mat[2000] : mat[2000][c][1] > 0}) >= 2
    /\ RowNumerators(2000) = mat[2000][Other][2]
    /\ mat[2000][Other][2] > 1
    /\ \A c \in DOMAIN mat[2001] : mat[2001][c][1] = 0
    /\ \A c \in DOMAIN mat[1965] : mat[1965][c][1] = 0

NoMatch == \A i \in DOMAIN hist_xlsx : hist_xlsx[i].Position # position

\* C2: when no table row has the requested Position the render stops with the
\* "no data" error: the neutralization sheet and the mutation table are not
\* opened, no figure is laid out and no file is written.
C2_NoDataAborts ==
    NoMatch =>
        /\ pc \in {"load", "hist", "error"}
        /\ pc = "error" => err = NoDataError
        /\ opened \subseteq {"mapping_json", "hist_xlsx"}
        /\ fig_h = 0 /\ neut_h = 0 /\ axes = <<>>
        /\ ax_neut = [patches |-> {}, texts |-> {}]
        /\ out_file = "none"

\* the abort on a table that has rows, all of another position
C2_Witness ==
    /\ NoMatch
    /\ hist_xlsx # <<>>
    /\ pc = "error"
    /\ err = NoDataError
    /\ mabs # <<>>

\* C10: before normalization the entry of a year and a coerced label is the
\* sum of that year's values over the selected rows coercing to the label;
\* the normalized entry is that sum over the year's total; position 160, set
\* S1, 2000: A=0.6, B=0.4, 2001: A=1.0 gives two columns, row 2000 = [0.6, 0.4]
\* and row 2001 = [1.0, 0.0].
C10_SummedThenNormalized ==
    Aggregated =>
        /\ LET labels == {coerce_aa(hist_xlsx[i].aa) : i \in Selected}
           IN \A y \in years : DOMAIN mat0[y] = labels /\ DOMAIN mat[y] = labels
        /\ \A y \in years :
             /\ \A c \in DOMAIN mat0[y] :
                  /\ mat0[y][c] = SourceSum(y, c)
                  /\ SourceTotal(y) > 0 => mat[y][c] = <<SourceSum(y, c), SourceTotal(y)>>
                  /\ SourceTotal(y) = 0 => mat[y][c][1] = 0
        /\ hist_xlsx = DefaultHist =>
             /\ DOMAIN mat[2000] = {TA, TB}
             /\ mat[2000][TA] = <<6, 10>> /\ mat[2000][TB] = <<4, 10>>
             /\ mat[2001][TA] = <<10, 10>> /\ mat[2001][TB] = <<0, 10>>

\* two rows with different invalid labels that both add into "Other"
C10_Witness ==
    /\ HistDone
    /\ Len(hist_xlsx) = 2
    /\ hist_xlsx[1].aa # hist_xlsx[2].aa
    /\ Selected = {1, 2}
    /\ DOMAIN mat0[2000] = {Other}
    /\ ToNumeric(hist_xlsx[1].vals[2]) > 0
    /\ ToNumeric(hist_xlsx[2].vals[2]) > 0
    /\ mat0[2000][Other] = ToNumeric(hist_xlsx[1].vals[2]) + ToNumeric(hist_xlsx[2].vals[2])

\* an antibody of the list that no sheet row carries in column B
NoSheetRow(m) == \A k \in DOMAIN neut_xlsx :
                    ~(IntOf(neut_xlsx[k].id).ok /\ Abs(IntOf(neut_xlsx[k].id).v) = Abs(m))
MissingAntibody == \E i \in DOMAIN mabs : NoSheetRow(mabs[i])

\* C3: an antibody of the list without a row in column B of the sheet gives
\* an undefined row and no abort: the render completes and writes its file.
C3_MissingRowStillRenders ==
    (MissingAntibody /\ pc \notin {"load", "hist"} /\ err # NoDataError) =>
        /\ pc # "error"
        /\ pc = "done" => out_file \in {"svg", "png"}

\* the mutation-table rows of the queried position whose mAB ID is, by
\* absolute value, an antibody of the list
RecordMatches(i) ==
    /\ IntOf(aa_positions_xlsx[i].pos).v = position
    /\ ParseInt(StrOf(aa_positions_xlsx[i].mab)).ok
    /\ \E j \in DOMAIN mabs : Abs(mabs[j]) = Abs(ParseInt(StrOf(aa_positions_xlsx[i].mab)).v)

\* the list element such a row stands for: the first one equal by absolute value
MatchedMab(i) ==
    mabs[CHOOSE j \in DOMAIN mabs :
            /\ Abs(mabs[j]) = Abs(ParseInt(StrOf(aa_positions_xlsx[i].mab)).v)
            /\ \A h \in 1..(j - 1) : Abs(mabs[h]) # Abs(ParseInt(StrOf(aa_positions_xlsx[i].mab)).v)]

StrainOf(i) == Strip(StrOf(aa_positions_xlsx[i].strain))
MutOf(i) == Strip(StrOf(aa_positions_xlsx[i].mut))
LastIndex == Len(CLUSTER_NAMES) - 1

\* C4 as stated: every matching record of the final cluster (HK14) puts its
\* antibody into the footnote set and is not positioned, so every positioned
\* entry has a cluster index below the last one.
C4_FinalClusterIsFootnote ==
    (ResolveDone /\ mabs # <<>>) =>
        /\ \A i \in DOMAIN aa_positions_xlsx :
              (RecordMatches(i) /\ StrainOf(i) = HK14) => MatchedMab(i) \in Range(asterisk_mabs)
        /\ \A m \in DOMAIN mutations : mutations[m][1] < LastIndex

\* C4 amended: the same for the matching records of the final cluster whose
\* Point mutation field is not empty after trimming; a record with an empty
\* field is skipped before its strain is looked at.
C4_FinalClusterIsFootnote_NonEmpty ==
    (ResolveDone /\ mabs # <<>>) =>
        /\ \A i \in DOMAIN aa_positions_xlsx :
              (RecordMatches(i) /\ StrainOf(i) = HK14 /\ MutOf(i) # <<>>)
                  => MatchedMab(i) \in Range(asterisk_mabs)
        /\ \A i \in DOMAIN aa_positions_xlsx :
              (RecordMatches(i) /\ StrainOf(i) = HK14 /\ MutOf(i) = <<>>
                 /\ \A h \in DOMAIN aa_positions_xlsx \ {i} : ~RecordMatches(h))
                  => asterisk_mabs = <<>>
        /\ \A m \in DOMAIN mutations : mutations[m][1] \in 0..(LastIndex - 1)

\* a final-cluster record and a positioned record of the same antibody
C4_Witness ==
    /\ ResolveDone
    /\ \E i \in DOMAIN aa_positions_xlsx :
          RecordMatches(i) /\ StrainOf(i) = HK14 /\ MutOf(i) # <<>>
    /\ asterisk_mabs # <<>>
    /\ \E m \in DOMAIN mutations : m \in Range(asterisk_mabs)

Flip(ms, i) == [ms EXCEPT ![i] = 0 - ms[i]]

\* what the panel shows in one row: its cells, letters and label
RowView(panel, yrow) ==
    [patches |-> {q \in panel.patches : q.row = yrow},
     texts |-> {t \in panel.texts : t.kind # "text" /\ t.row = yrow}]

\* C5: an antibody ID m of the list written -m resolves identically: the same
\* sheet row, the same fill colors, the same letters and footnote marker and
\* the same rendered row for that antibody.
C5_SignOfAntibodyIgnored ==
    (pc \in {"save", "done"} /\ mabs # <<>>) =>
        \A i \in DOMAIN mabs :
            LET ms2 == Flip(mabs, i)
                st2 == ScanMutations([mutations |-> EmptyMutations, asterisk_mabs |-> <<>>],
                                     ms2, position, aa_positions_xlsx, 1)
                panel2 == DrawNeut(ms2, FacesOf(neut_xlsx, ms2), st2.mutations, st2.asterisk_mabs)
            IN /\ find_row(neut_xlsx, ms2[i]) = find_row(neut_xlsx, mabs[i])
               /\ FacesOf(neut_xlsx, ms2)[i] = faces[i]
               /\ RowView(panel2, Len(mabs) - i) = RowView(ax_neut, Len(mabs) - i)

\* the mapping records filed under a position, by exact value and by absolute value
MapAt(p) == {i \in DOMAIN mapping_json : IntOf(mapping_json[i].Position).v = p}
MapAtAbs(p) == {i \in DOMAIN mapping_json : Abs(IntOf(mapping_json[i].Position).v) = Abs(p)}
LastOf(S) == CHOOSE i \in S : \A j \in S : j <= i
ListOf(S) == IF S = {} THEN <<>> ELSE RecordMabs(mapping_json[LastOf(S)]).list

\* what a mutation-table row would place, were it scanned for antibody list ms
Places(i) == /\ ParseInt(StrOf(aa_positions_xlsx[i].mab)).ok
             /\ \E j \in DOMAIN mabs : Abs(mabs[j]) = Abs(ParseInt(StrOf(aa_positions_xlsx[i].mab)).v)
             /\ MutOf(i) # <<>>
             /\ ClusterIndex(StrainOf(i)) \in 0..(LastIndex - 1)

\* C6 as stated: positions are keyed by absolute value, so a render of p uses
\* the mapping record, histogram rows and mutation records filed under -p.
C6_PositionKeyedByAbsoluteValue ==
    /\ pc \notin {"load", "error"} => mabs = ListOf(MapAtAbs(position))
    /\ (pc = "error" /\ err = NoDataError) =>
          \A i \in DOMAIN hist_xlsx : Abs(hist_xlsx[i].Position) # Abs(position)
    /\ (ResolveDone /\ mabs # <<>>) =>
          \A i \in DOMAIN aa_positions_xlsx :
              (Abs(IntOf(aa_positions_xlsx[i].pos).v) = Abs(position) /\ Places(i))
                  => MatchedMab(i) \in DOMAIN mutations

\* C6 amended: positions are matched by exact integer equality: a render of p
\* takes the antibody list of the last mapping record whose Position is p,
\* the histogram rows whose Position is p and the mutation records whose
\* position is p; what is filed under -p is not used.
C6_PositionMatchedExactly ==
    /\ pc \notin {"load", "error"} => mabs = ListOf(MapAt(position))
    /\ pc \notin {"load", "hist"} => ((err = NoDataError) <=> (AtPosition = {}))
    /\ HistDone => \A c \in DOMAIN mat0[2000] : mat0[2000][c] = SourceSum(2000, c)
    /\ (ResolveDone /\ mabs # <<>>) =>
          /\ \A m \in DOMAIN mutations :
                \E i \in DOMAIN aa_positions_xlsx :
                    /\ IntOf(aa_positions_xlsx[i].pos).v = position
                    /\ Places(i) /\ MatchedMab(i) = m
                    /\ mutations[m][1] = ClusterIndex(StrainOf(i))
          /\ \A i \in DOMAIN aa_positions_xlsx :
                (IntOf(aa_positions_xlsx[i].pos).v = position /\ Places(i))
                    => MatchedMab(i) \in DOMAIN mutations

\* a finished render that left aside a mapping record filed under -p
C6_Witness ==
    /\ pc = "done"
    /\ position > 0
    /\ MapAt(position) = {}
    /\ ListOf(MapAtAbs(position)) # <<>>
    /\ mabs = <<>>

MeanLess(a, b) == FracLess(ColMean(mat, a), ColMean(mat, b))
OtherIgnoringCase(c) == Lower(c) = <<"o","t","h","e","r">>
IsPermutationOfColumns == /\ Range(aa_order) = DOMAIN mat[YEAR_MIN]
                          /\ Len(aa_order) = Cardinality(DOMAIN mat[YEAR_MIN])

\* C7 as stated: in aa_order "Other", when present, is last whatever its
\* mean, and all labels other than "Other" precede it in order of descending
\* mean proportion across years.
C7_OtherLastRestByMean ==
    HistDone =>
        /\ IsPermutationOfColumns
        /\ Other \in Range(aa_order) => aa_order[Len(aa_order)] = Other
        /\ \A i, j \in DOMAIN aa_order :
              (i < j /\ aa_order[i] # Other /\ aa_order[j] # Other)
                  => ~MeanLess(aa_order[i], aa_order[j])

\* C7 amended: the labels equal to "other" when case is ignored come after
\* all the others, "Other" itself last when present, and the labels that are
\* not "other" in any case precede them in order of descending mean.
C7_OtherLastRestByMean_AnyCase ==
    HistDone =>
        /\ IsPermutationOfColumns
        /\ Other \in Range(aa_order) => aa_order[Len(aa_order)] = Other
        /\ \A i, j \in DOMAIN aa_order :
              i < j =>
                /\ OtherIgnoringCase(aa_order[i]) => OtherIgnoringCase(aa_order[j])
                /\ (~OtherIgnoringCase(aa_order[i]) /\ ~OtherIgnoringCase(aa_order[j]))
                      => ~MeanLess(aa_order[i], aa_order[j])

\* "Other" last although its mean is the largest
C7_Witness ==
    /\ HistDone
    /\ Len(aa_order) >= 2
    /\ aa_order[Len(aa_order)] = Other
    /\ MeanLess(aa_order[1], Other)

\* C8: the neutralization block is the per-row height times the number of
\* antibodies when there is at least one, the fixed minimum when there is
\* none; the figure height adds the histogram, cluster-strip and year-axis
\* heights, three gaps and the top and bottom padding.
C8_AdaptiveHeight ==
    pc \in {"draw", "save", "done"} =>
        /\ Len(mabs) >= 1 => neut_h = NEUT_ROW_H_IN * Len(mabs)
        /\ Len(mabs) = 0 => neut_h = NO_MABS_H_IN
        /\ fig_h = neut_h + HIST_H_IN + CLUSTER_H_IN + YEAR_H_IN
                   + GAP_IN + GAP_IN + GAP_IN + TOP_PAD_IN + BOTTOM_PAD_IN
        /\ axes.neut[2] = neut_h
        /\ axes.year[1] + axes.year[2] + BOTTOM_PAD_IN = fig_h

\* two antibodies, each with a positioned mutation record
C8_Witness ==
    /\ pc = "done"
    /\ Len(mabs) = 2
    /\ Cardinality(DOMAIN mutations) = 2
    /\ neut_h = 2 * NEUT_ROW_H_IN

\* the mapping gives the position no antibody: no record, or a last record
\* whose mAbs reads empty, "nan", "None" or "none"
NoAntibodiesMapped ==
    \/ MapAt(position) = {}
    \/ Strip(StrOf(mapping_json[LastOf(MapAt(position))].mAbs))
          \in { <<>>, <<"n","a","n">>, <<"N","o","n","e">>, <<"n","o","n","e">> }

\* C9: with an empty antibody list the resolver is skipped: the sheet and
\* the mutation table are never read, fill rows, positioned mutations and
\* footnote set stay empty, and the panel holds only the placeholder text.
C9_EmptyListSkipsResolver ==
    (pc \notin {"load", "error"} /\ (mabs = <<>> \/ NoAntibodiesMapped)) =>
        /\ mabs = <<>>
        /\ "neut_xlsx" \notin opened
        /\ "aa_positions_xlsx" \notin opened
        /\ faces = <<>>
        /\ mutations = EmptyMutations
        /\ asterisk_mabs = <<>>
        /\ pc \in {"save", "done"} =>
              /\ ax_neut.patches = {}
              /\ ax_neut.texts = {Placeholder}
              /\ neut_h = NO_MABS_H_IN

\* a finished render of a position whose record reads " none"
C9_Witness ==
    /\ pc = "done"
    /\ MapAt(position) # {}
    /\ mapping_json[LastOf(MapAt(position))].mAbs.s # <<>>
    /\ mabs = <<>>
    /\ ax_neut.texts = {Placeholder}

\* a Point mutation cell that is blank or missing
EmptyMutField(c) == IsNa(c) \/ (c.t = "str" /\ Strip(c.s) = <<>>)

\* the table without its row i
Without(s, i) == [k \in 1..(Len(s) - 1) |-> IF k < i THEN s[k] ELSE s[k + 1]]

C12_CoerceIdempotent ==
    /\ coerce_aa(StrCell(Other)) = Other
    /\ \A i \in DOMAIN hist_xlsx :
          coerce_aa(StrCell(coerce_aa(hist_xlsx[i].aa))) = coerce_aa(hist_xlsx[i].aa)
    /\ HistDone => \A c \in DOMAIN mat0[YEAR_MIN] : coerce_aa(StrCell(c)) = c

\* an aggregated table with a label that coercion trims and a sentinel text
\* that it turns into "Other"
C12_Witness ==
    /\ HistDone
    /\ \E i \in Selected :
          /\ hist_xlsx[i].aa.t = "str"
          /\ coerce_aa(hist_xlsx[i].aa) \notin {Other, hist_xlsx[i].aa.s}
          /\ coerce_aa(hist_xlsx[i].aa) \in DOMAIN mat0[YEAR_MIN]
    /\ \E i \in Selected :
          /\ hist_xlsx[i].aa.t = "str"
          /\ hist_xlsx[i].aa.s # Other
          /\ coerce_aa(hist_xlsx[i].aa) = Other

\* the place in the antibody list of the element a matching row stands for
MatchedIndex(i) ==
    CHOOSE j \in DOMAIN mabs :
        /\ Abs(mabs[j]) = Abs(ParseInt(StrOf(aa_positions_xlsx[i].mab)).v)
        /\ \A h \in 1..(j - 1) : Abs(mabs[h]) # Abs(ParseInt(StrOf(aa_positions_xlsx[i].mab)).v)

\* C13: every record that matches the queried position and one of its
\* antibodies and whose strain is a non-final cluster of index i has its
\* wild-type letter drawn in the antibody's cell of cluster i and its mutant
\* letter in the cell of cluster i+1, which exists; this for every such
\* record, also when several records exist for the same antibody.
C13_EveryRecordDrawn ==
    (pc \in {"save", "done"} /\ mabs # <<>>) =>
        \A i \in DOMAIN aa_positions_xlsx :
            (IntOf(aa_positions_xlsx[i].pos).v = position /\ Places(i)) =>
                LET idx == ClusterIndex(StrainOf(i))
                    yrow == Len(mabs) - MatchedIndex(i)
                IN /\ idx + 1 <= LastIndex
                   /\ \E t \in ax_neut.texts :
                         /\ t.kind = "wt" /\ t.row = yrow /\ t.col = idx
                         /\ t.txt = MutOf(i)[1]
                   /\ \E t \in ax_neut.texts :
                         /\ t.kind = "mut" /\ t.row = yrow /\ t.col = idx + 1
                         /\ t.txt = MutOf(i)[Len(MutOf(i))]

\* the table with the rows of the requested position that are of another
\* set than the first such row taken out
OtherSetsRemoved ==
    SelectSeq(hist_xlsx, LAMBDA r : r.Position # position
                                    \/ r.SetName = hist_xlsx[FirstAtPosition].SetName)

\* C14: of the rows of the requested position only those whose SetName is
\* that of the first such row contribute: the labels are the coerced labels
\* of these rows, and the matrix is the one the same table gives once the
\* rows of the other sets are taken out.
C14_FirstSetOnly ==
    Aggregated =>
        LET sub == SelectSet(SelectPosition(OtherSetsRemoved, position)) IN
        /\ \A i \in AtPosition :
              hist_xlsx[i].SetName # hist_xlsx[FirstAtPosition].SetName => i \notin Selected
        /\ DOMAIN mat0[YEAR_MIN] = {coerce_aa(hist_xlsx[i].aa) : i \in Selected}
        /\ Len(sub) = Cardinality(Selected)
        /\ mat0 = Accumulate(ZeroMat(ColumnsOf(sub)), HistColumns, sub, 1)
        /\ mat = safe_normalize(Accumulate(ZeroMat(ColumnsOf(sub)), HistColumns, sub, 1))

\* a row of the position, of another set, whose label and values are left out
C14_Witness ==
    /\ HistDone
    /\ \E i \in AtPosition \ Selected :
          /\ coerce_aa(hist_xlsx[i].aa) \notin DOMAIN mat0[2000]
          /\ ToNumeric(hist_xlsx[i].vals[2]) > 0
    /\ \E c \in DOMAIN mat0[2000] : mat0[2000][c] > 0

====
